---- MODULE Spec2Model ----
(***************************************************************************)
(* raug-macros: the #[processor] attribute macro, derive(Processor) and    *)
(* iter_proc_io_as!, modelled together with the run-time behaviour of the  *)
(* code they emit (process, input_spec/output_spec, node).                 *)
(*                                                                         *)
(* Channel indices are 0-based as in the Rust code; TLA+ sequences are     *)
(* 1-based, so channel k lives at position k + 1 of a sequence.            *)
(***************************************************************************)
EXTENDS Integers, Sequences, FiniteSets, TLC

\* ------------------------------------------------------------------ bounds
MaxBlockSize == 2
MaxCounter == 3

\* ------------------------------------------------------------ small helpers
None == "None"

Range(s) == {s[k] : k \in 1..Len(s)}

Indices(n) == 0..(n - 1)

RECURSIVE SumSeq(_)
SumSeq(s) == IF s = <<>> THEN 0 ELSE Head(s) + SumSeq(Tail(s))

\* ------------------------------------------------------------ declarations
\* A syn::Type as far as the macros inspect it: Type::Path (elem is the ident),
\* Type::Reference, Type::Group around a reference or around something else.
Ty(shape, elem) == [shape |-> shape, elem |-> elem]

\* A syn::FnArg::Typed: its pattern (an identifier or not), its attributes in
\* source order, its type.
Arg(name, attrs, ty) ==
    [kind |-> "typed", name |-> name, pat_ident |-> TRUE, attrs |-> attrs, ty |-> ty]

\* tests/processor_attr.rs: add_to_counter
AddToCounter ==
    [ident |-> "add_to_counter",
     body  |-> "add",
     args  |-> << Arg("counter", <<"state">>,  Ty("ref_mut", "i64")),
                  Arg("a",       <<"input">>,  Ty("ref", "i64")),
                  Arg("b",       <<"input">>,  Ty("ref", "i64")),
                  Arg("out",     <<"output">>, Ty("ref_mut", "i64")) >>]

\* The same roles interleaved, with an environment parameter, a grouped input
\* reference and a transform that can fail.
Interleaved ==
    [ident |-> "checked_counter",
     body  |-> "checked",
     args  |-> << Arg("out",     <<"output">>, Ty("ref_mut", "i64")),
                  Arg("a",       <<"input">>,  Ty("group_ref", "i64")),
                  Arg("env",     <<>>,         Ty("path", "ProcEnv")),
                  Arg("counter", <<"state">>,  Ty("ref_mut", "i64")),
                  Arg("b",       <<"input">>,  Ty("ref", "i64")),
                  Arg("out2",    <<"output">>, Ty("ref_mut", "i64")) >>]

\* No Input and no Output parameter.
StateOnly ==
    [ident |-> "tick",
     body  |-> "add",
     args  |-> << Arg("counter", <<"state">>, Ty("ref_mut", "i64")) >>]

Definitions == {AddToCounter, Interleaved, StateOnly}

\* ------------------------------------------------- processor_attribute: parse
ProcessorArg(name, ty) == [name |-> name, ty |-> ty]

Parsed0 ==
    [err |-> "", proc_env_ident |-> None,
     state |-> <<>>, input |-> <<>>, output |-> <<>>]

Fail(acc, msg) == [acc EXCEPT !.err = msg]

\* The #[input] branch: the referenced type, or the error.
InputTyAnyReference(arg) ==
    CASE arg.ty.shape \in {"group_ref", "group_ref_mut", "ref", "ref_mut"}
                                        -> [err |-> "", ty |-> Ty("path", arg.ty.elem)]
      [] arg.ty.shape = "group_other"   -> [err |-> "Input argument must be a reference inside a group", ty |-> None]
      [] OTHER                          -> [err |-> "Input argument must be a reference", ty |-> None]
InputTy(arg) ==
    CASE arg.ty.shape = "group_ref"     -> [err |-> "", ty |-> Ty("path", arg.ty.elem)]
      [] arg.ty.shape = "group_ref_mut" -> [err |-> "Input argument must be immutable reference", ty |-> None]
      [] arg.ty.shape = "group_other"   -> [err |-> "Input argument must be a reference inside a group", ty |-> None]
      [] arg.ty.shape = "ref"           -> [err |-> "", ty |-> Ty("path", arg.ty.elem)]
      [] arg.ty.shape = "ref_mut"       -> [err |-> "Input argument must be immutable reference", ty |-> None]
      [] OTHER                          -> [err |-> "Input argument must be a reference", ty |-> None]

\* The #[output] branch.
OutputTy(arg) ==
    CASE arg.ty.shape = "group_ref_mut" -> [err |-> "", ty |-> Ty("path", arg.ty.elem)]
      [] arg.ty.shape = "group_ref"     -> [err |-> "Output argument must be mutable reference", ty |-> None]
      [] arg.ty.shape = "group_other"   -> [err |-> "Output argument must be a reference inside a group", ty |-> None]
      [] arg.ty.shape = "ref_mut"       -> [err |-> "", ty |-> Ty("path", arg.ty.elem)]
      [] arg.ty.shape = "ref"           -> [err |-> "Output argument must be mutable reference", ty |-> None]
      [] OTHER                          -> [err |-> "Output argument must be a reference", ty |-> None]

\* An argument whose type is the path `ProcEnv`: the first one is kept as
\* proc_env_ident, another one is an error.
ProcEnvArgKeepLast(acc, arg) == [acc EXCEPT !.proc_env_ident = arg.name]
ProcEnvArg(acc, arg) ==
    IF acc.proc_env_ident # None
    THEN Fail(acc, "Only one ProcEnv argument is allowed")
    ELSE [acc EXCEPT !.proc_env_ident = arg.name]

\* One turn of `for arg in item.sig.inputs.iter()`.
ParseArg(acc, arg) ==
    IF acc.err # "" THEN acc
    ELSE IF arg.kind # "typed"
    THEN Fail(acc, "Expected a function argument with attributes")
    ELSE IF arg.ty.shape = "path" /\ arg.ty.elem = "ProcEnv"
    THEN ProcEnvArg(acc, arg)
    ELSE IF arg.attrs = <<>>
    THEN Fail(acc, "Expected a function argument with attributes")
    ELSE LET attr == Head(arg.attrs) IN
         CASE attr = "state" ->
                IF ~arg.pat_ident
                THEN Fail(acc, "State argument must be a named identifier")
                ELSE [acc EXCEPT !.state = Append(@, ProcessorArg(arg.name, arg.ty))]
           [] attr = "input" ->
                IF ~arg.pat_ident
                THEN Fail(acc, "Input argument must be a named identifier")
                ELSE LET t == InputTy(arg) IN
                     IF t.err # "" THEN Fail(acc, t.err)
                     ELSE [acc EXCEPT !.input = Append(@, ProcessorArg(arg.name, t.ty))]
           [] attr = "output" ->
                IF ~arg.pat_ident
                THEN Fail(acc, "Output argument must be a named identifier")
                ELSE LET t == OutputTy(arg) IN
                     IF t.err # "" THEN Fail(acc, t.err)
                     ELSE [acc EXCEPT !.output = Append(@, ProcessorArg(arg.name, t.ty))]
           [] OTHER ->
                Fail(acc, "Unknown attribute. Only state, input, and output are supported.")

RECURSIVE ParseArgs(_, _)
ParseArgs(acc, args) ==
    IF args = <<>> THEN acc ELSE ParseArgs(ParseArg(acc, Head(args)), Tail(args))

\* The state loop that builds struct_fields: every #[state] type must be `&mut T`.
RECURSIVE StateFields(_, _)
StateFields(acc, state) ==
    IF state = <<>> \/ acc.err # "" THEN acc
    ELSE LET s == Head(state) IN
         IF s.ty.shape = "ref_mut"
         THEN StateFields([acc EXCEPT !.fields = Append(@, ProcessorArg(s.name, Ty("path", s.ty.elem)))],
                          Tail(state))
         ELSE IF s.ty.shape = "ref"
         THEN [acc EXCEPT !.err = "State argument must be mutable reference"]
         ELSE [acc EXCEPT !.err = "State argument must be a mutable reference"]

\* What processor_attribute keeps of a definition: the error it returns, or the
\* vectors state / input / output the emitted code is built from.
Parse(decl) ==
    LET p == ParseArgs(Parsed0, decl.args)
        s == IF p.err # "" THEN [err |-> p.err, fields |-> <<>>]
             ELSE StateFields([err |-> "", fields |-> <<>>], p.state)
    IN [err |-> s.err, proc_env_ident |-> p.proc_env_ident,
        state |-> s.fields, input |-> p.input, output |-> p.output]

\* ------------------------------------------------------------- signal kinds
\* The type -> SignalType table of impl_processor (the same for inputs and
\* outputs); <T as Signal>::signal_type() of the attribute variant agrees with
\* it on these types.
SignalType(ident) ==
    CASE ident = "bool"        -> "Bool"
      [] ident = "f32"         -> "Float"
      [] ident = "f64"         -> "Float"
      [] ident = "Float"       -> "Float"
      [] ident = "i64"         -> "Int"
      [] ident = "MidiMessage" -> "Midi"
      [] OTHER                 -> "Unsupported"

\* The two type -> SignalType tables of impl_processor, on the identifier of
\* the last path segment; any other identifier is a panic!.
Unsupported == "panic: Unsupported type"

InputSignalTypeOrFloat(ident) ==
    CASE ident = "bool"        -> "Bool"
      [] ident = "f32"         -> "Float"
      [] ident = "f64"         -> "Float"
      [] ident = "Float"       -> "Float"
      [] ident = "i64"         -> "Int"
      [] ident = "MidiMessage" -> "Midi"
      [] OTHER                 -> "Float"
input_field_signal_type(ident) ==
    CASE ident = "bool"        -> "Bool"
      [] ident = "f32"         -> "Float"
      [] ident = "f64"         -> "Float"
      [] ident = "Float"       -> "Float"
      [] ident = "i64"         -> "Int"
      [] ident = "MidiMessage" -> "Midi"
      [] OTHER                 -> Unsupported

output_field_signal_type(ident) ==
    CASE ident = "bool"        -> "Bool"
      [] ident = "f32"         -> "Float"
      [] ident = "f64"         -> "Float"
      [] ident = "Float"       -> "Float"
      [] ident = "i64"         -> "Int"
      [] ident = "MidiMessage" -> "Midi"
      [] OTHER                 -> Unsupported

SignalSpec(name, kind) == [name |-> name, kind |-> kind]

\* `.iter().enumerate()`: the index given to the k-th element of a vector.
EnumerateShifted(k) == k
Enumerate(k) == k - 1

\* ------------------------------------------- #[processor]: the emitted unit
\* get_inputs / assign_inputs: `let name = &inputs.input_as::<ty>(arg_index)`.
GetInputs(p) ==
    [k \in 1..Len(p.input) |->
        [field |-> p.input[k].name, ty |-> p.input[k].ty.elem, index |-> Enumerate(k)]]

\* get_outputs / assign_outputs: `outputs.output_extended_lifetime(arg_index)`,
\* `.get_mut_as::<ty>(__i).unwrap()`.
GetOutputs(p) ==
    [k \in 1..Len(p.output) |->
        [field |-> p.output[k].name, ty |-> p.output[k].ty.elem, index |-> Enumerate(k)]]

AttrUnit(decl) ==
    LET p == Parse(decl) IN
    [strategy    |-> "attr",
     body        |-> decl.body,
     state       |-> [k \in 1..Len(p.state) |-> p.state[k].name],
     input_spec  |-> [k \in 1..Len(p.input) |->
                        SignalSpec(p.input[k].name, SignalType(p.input[k].ty.elem))],
     output_spec |-> [k \in 1..Len(p.output) |->
                        SignalSpec(p.output[k].name, SignalType(p.output[k].ty.elem))],
     get_inputs  |-> GetInputs(p),
     get_outputs |-> GetOutputs(p),
     \* struct_fields: one per #[state] and per #[input]; outputs are no fields
     fields      |-> {p.state[k].name : k \in 1..Len(p.state)}
                       \cup {p.input[k].name : k \in 1..Len(p.input)}]

\* ---------------------------------------------- derive(Processor): the unit
\* The struct a definition is written as for derive(Processor): one owned field
\* per State, Input and Output parameter, the role attributes kept.
StructField(arg) ==
    [name  |-> arg.name,
     attrs |-> SelectSeq(arg.attrs, LAMBDA a : a \in {"input", "output"}),
     ty    |-> Ty("path", arg.ty.elem)]

StructOf(decl) ==
    LET owned == SelectSeq(decl.args, LAMBDA a : ~(a.ty.shape = "path" /\ a.ty.elem = "ProcEnv"))
    IN [k \in 1..Len(owned) |-> StructField(owned[k])]

HasAttr(field, attr) == \E k \in 1..Len(field.attrs) : field.attrs[k] = attr

input_fields(named) == SelectSeq(named, LAMBDA f : HasAttr(f, "input"))

output_fields(named) == SelectSeq(named, LAMBDA f : HasAttr(f, "output"))

DeriveUnit(decl) ==
    LET named  == StructOf(decl)
        ins    == input_fields(named)
        outs   == output_fields(named)
    IN
    [strategy    |-> "derive",
     body        |-> decl.body,
     state       |-> LET st == SelectSeq(named, LAMBDA f : f.attrs = <<>>)
                     IN [k \in 1..Len(st) |-> st[k].name],
     input_spec  |-> [k \in 1..Len(ins) |->
                        SignalSpec(ins[k].name, input_field_signal_type(ins[k].ty.elem))],
     output_spec |-> [k \in 1..Len(outs) |->
                        SignalSpec(outs[k].name, output_field_signal_type(outs[k].ty.elem))],
     \* input_field_names / input_field_types / input_field_indices
     get_inputs  |-> [k \in 1..Len(ins) |->
                        [field |-> ins[k].name, ty |-> ins[k].ty.elem, index |-> Enumerate(k)]],
     \* output_field_names / output_field_indices
     get_outputs |-> [k \in 1..Len(outs) |->
                        [field |-> outs[k].name, ty |-> outs[k].ty.elem, index |-> Enumerate(k)]],
     fields      |-> {named[k].name : k \in 1..Len(named)}]

Strategies == {"attr", "derive"}

Emit(d, s) == IF s = "attr" THEN AttrUnit(d) ELSE DeriveUnit(d)

\* The units emitted for each definition, by the definition's identifier.
Units ==
    [i \in {d.ident : d \in Definitions} |->
        [s \in Strategies |-> Emit(CHOOSE d \in Definitions : d.ident = i, s)]]

\* ------------------------------------------------------ buffers and channels
\* Option<T> is a sequence of length 0 (None) or 1 (Some).
Some(v) == <<v>>
NoValue == <<>>

Buffer(kind, data) == [present |-> TRUE, kind |-> kind, data |-> data]

\* An input the graph left unconnected: `inputs[index]` is None.
Absent == [present |-> FALSE, kind |-> "None", data |-> <<>>]

\* inputs.input_as::<T>(index): the whole-block view of a connected channel of
\* T's kind, or None; the emitted code matches it as an Option either way.
input_as(inputs, ty, index) ==
    IF index + 1 \notin DOMAIN inputs THEN NoValue
    ELSE LET c == inputs[index + 1] IN
         IF c.present /\ c.kind = SignalType(ty) THEN Some(c.data) ELSE NoValue

\* AnyBuffer::zeros::<T>(size), one per output.
create_output_buffers(unit, size) ==
    [k \in 1..Len(unit.output_spec) |->
        Buffer(unit.output_spec[k].kind, [j \in 1..size |-> 0])]

\* The typed access to one output slot succeeds when the buffer exists, holds
\* T's kind and has the index.
OutputSlotOk(outs, ty, index, i) ==
    /\ index + 1 \in DOMAIN outs
    /\ outs[index + 1].kind = SignalType(ty)
    /\ i + 1 \in DOMAIN outs[index + 1].data

\* ------------------------------------------------------------- the transform
\* The body of the definition, as in tests/processor_attr.rs:
\*     *counter += a + b; *out = *counter; Ok(())
\* over however many inputs and outputs there are; the "checked" body first
\* returns Err on a negative input, before it changes anything.
BodyOverwrite(kind, counter, ins) ==
    IF kind = "checked" /\ \E k \in 1..Len(ins) : ins[k] < 0
    THEN [err |-> "Err(negative input)", counter |-> counter]
    ELSE [err |-> "", counter |-> SumSeq(ins)]
Body(kind, counter, ins) ==
    IF kind = "checked" /\ \E k \in 1..Len(ins) : ins[k] < 0
    THEN [err |-> "Err(negative input)", counter |-> counter]
    ELSE [err |-> "", counter |-> counter + SumSeq(ins)]

InputValues(unit, f) == [k \in 1..Len(unit.get_inputs) |-> f[unit.get_inputs[k].field]]

StateField(unit) == unit.state[1]

\* -------------------------------------------- #[processor]: one loop iteration
\* assign_inputs: `if let Some(x) = x.map(|inp| &inp[__i]) { clone_from(&mut self.x, x) }`
AttrAssignInputs(unit, f, inputs, i) ==
    [name \in DOMAIN f |->
        IF \E k \in 1..Len(unit.get_inputs) :
              /\ unit.get_inputs[k].field = name
              /\ input_as(inputs, unit.get_inputs[k].ty, unit.get_inputs[k].index) # NoValue
        THEN LET k == CHOOSE k \in 1..Len(unit.get_inputs) : unit.get_inputs[k].field = name
                 view == input_as(inputs, unit.get_inputs[k].ty, unit.get_inputs[k].index)
             IN view[1][i + 1][1]
        ELSE f[name]]

\* The index that follows __i in `for __i in 0..inputs.block_size()`.
SkipIndex(i) == i + 2
NextIndex(i) == i + 1

\* assign_inputs, assign_outputs, Self::process_sample(..)? for index i.
AttrIteration(unit, f, outs, inputs, i) ==
    LET f1 == AttrAssignInputs(unit, f, inputs, i)
        slotsOk == \A k \in 1..Len(unit.get_outputs) :
                      OutputSlotOk(outs, unit.get_outputs[k].ty, unit.get_outputs[k].index, i)
        r == Body(unit.body, f1[StateField(unit)], InputValues(unit, f1))
    IN
    IF ~slotsOk
    THEN \* get_mut_as::<T>(__i).unwrap() on a None
         [outcome |-> "panic", fields |-> f1, outs |-> outs, called |-> FALSE,
          seen |-> f1, failed |-> FALSE, wrote |-> {}]
    ELSE IF r.err # ""
    THEN [outcome |-> r.err, fields |-> f1, outs |-> outs, called |-> TRUE,
          seen |-> f1, failed |-> TRUE, wrote |-> {}]
    ELSE [outcome |-> "continue",
          fields  |-> [f1 EXCEPT ![StateField(unit)] = r.counter],
          outs    |-> [c \in DOMAIN outs |->
                         IF \E k \in 1..Len(unit.get_outputs) : unit.get_outputs[k].index + 1 = c
                         THEN [outs[c] EXCEPT !.data[i + 1] = r.counter]
                         ELSE outs[c]],
          called  |-> TRUE,
          seen    |-> f1,
          failed  |-> FALSE,
          wrote   |-> {<<unit.get_outputs[k].index, i>> : k \in 1..Len(unit.get_outputs)}]

\* ------------------------------------------ derive(Processor): one iteration
\* `self.x = x.and_then(|inp| inp[__i]).unwrap_or(self.x)`
DeriveLatchOrDefault(unit, f, inputs, i) ==
    [name \in DOMAIN f |->
        IF \E k \in 1..Len(unit.get_inputs) : unit.get_inputs[k].field = name
        THEN LET k == CHOOSE k \in 1..Len(unit.get_inputs) : unit.get_inputs[k].field = name
                 view == input_as(inputs, unit.get_inputs[k].ty, unit.get_inputs[k].index)
             IN IF view = NoValue THEN 0
                ELSE IF view[1][i + 1] = NoValue THEN 0
                ELSE view[1][i + 1][1]
        ELSE f[name]]
DeriveLatch(unit, f, inputs, i) ==
    [name \in DOMAIN f |->
        IF \E k \in 1..Len(unit.get_inputs) : unit.get_inputs[k].field = name
        THEN LET k == CHOOSE k \in 1..Len(unit.get_inputs) : unit.get_inputs[k].field = name
                 view == input_as(inputs, unit.get_inputs[k].ty, unit.get_inputs[k].index)
             IN IF view = NoValue THEN f[name]
                ELSE IF view[1][i + 1] = NoValue THEN f[name]
                ELSE view[1][i + 1][1]
        ELSE f[name]]

\* `self.update(&inputs.env);` the value of the call is dropped.
DeriveUpdate(unit, f) ==
    LET r == Body(unit.body, f[StateField(unit)], InputValues(unit, f)) IN
    IF r.err # "" THEN [err |-> r.err, fields |-> f]
    ELSE [err |-> "",
          fields |-> [name \in DOMAIN f |->
                        IF name = StateField(unit) THEN r.counter
                        ELSE IF \E k \in 1..Len(unit.get_outputs) : unit.get_outputs[k].field = name
                        THEN r.counter
                        ELSE f[name]]]

\* `outputs.set_output_as(index, __i, self.x)?` for the outputs from the k-th on.
RECURSIVE DeriveSetOutputs(_, _, _, _, _, _)
DeriveSetOutputs(unit, f, outs, i, k, wrote) ==
    IF k > Len(unit.get_outputs) THEN [err |-> "", outs |-> outs, wrote |-> wrote]
    ELSE LET g == unit.get_outputs[k] IN
         IF ~OutputSlotOk(outs, g.ty, g.index, i)
         THEN [err |-> "Err(type mismatch)", outs |-> outs, wrote |-> wrote]
         ELSE DeriveSetOutputs(unit, f,
                               [outs EXCEPT ![g.index + 1].data[i + 1] = f[g.field]],
                               i, k + 1, wrote \cup {<<g.index, i>>})

DeriveIteration(unit, f, outs, inputs, i) ==
    LET f1 == DeriveLatch(unit, f, inputs, i)
        u  == DeriveUpdate(unit, f1)
        w  == DeriveSetOutputs(unit, u.fields, outs, i, 1, {})
    IN [outcome |-> IF w.err # "" THEN w.err ELSE "continue",
        fields  |-> u.fields,
        outs    |-> w.outs,
        called  |-> TRUE,
        seen    |-> f1,
        failed  |-> u.err # "",
        wrote   |-> w.wrote]

\* --------------------------------------------------------------- the graph
\* What a producer handed to node() puts on the channel it is connected to.
Producers == {"int_src", "float_src"}

ProducerKind(p) == IF p = "int_src" THEN "Int" ELSE "Float"

\* `input_index += 1;` after each slot of node(), connected or not.
NodeInputIndexIfConnected(input_index, connected) ==
    IF connected THEN input_index + 1 ELSE input_index
NodeInputIndex(input_index, connected) == input_index + 1

\* The body of node(): `if let Some(input) = x.into_output_opt(graph)
\* { node.input(input_index).connect(input); } input_index += 1;` per slot.
RECURSIVE NodeConnect(_, _, _)
NodeConnect(conn, slots, input_index) ==
    IF slots = <<>> THEN conn
    ELSE LET given == Head(slots) # NoValue
             c1 == IF given /\ input_index + 1 \in DOMAIN conn
                   THEN [conn EXCEPT ![input_index + 1] = Head(slots)]
                   ELSE conn
         IN NodeConnect(c1, Tail(slots), NodeInputIndex(input_index, given))

\* All sequences that take their k-th element from sets[k].
RECURSIVE Product(_)
Product(sets) ==
    IF sets = <<>> THEN {<<>>}
    ELSE {<<h>> \o t : h \in Head(sets), t \in Product(Tail(sets))}

\* One optional producer per declared Input: the arguments of node().
NodeSlots(unit) ==
    Product([k \in 1..Len(unit.get_inputs) |-> {NoValue} \cup {Some(p) : p \in Producers}])

\* ------------------------------------------------------------------- state
VARIABLES
    def,        \* the identifier of the definition both units are emitted from
    graph,      \* the node: the specs it was registered with, the slots given to
                \* node(), and conn[k + 1], the producer connected to input index k
    partial,    \* the input buffers hold Option<T> per sample (derive's view of them)
    block,      \* the ProcessorInputs of the current process call
    fields,     \* fields[s]: the unit's struct fields
    pc,         \* pc[s]: "idle", "loop" (inside process), "done" (process returned)
    idx,        \* idx[s]: __i
    result,     \* result[s]: what process returned: "Ok", "Err(..)", "panic"
    outputs,    \* outputs[s]: the output buffers of the current call
    calls,      \* calls[s]: the indices the transform was invoked for, in order
    failedAt,   \* failedAt[s]: the indices at which the transform returned Err
    writes,     \* writes[s]: the <<channel, index>> output positions written
    entry,      \* entry[s]: the fields when process was entered
    prior,      \* prior[s]: the fields before the latest iteration
    atCall,     \* atCall[s]: the fields the transform was invoked with, latest iteration
    zip,        \* the sequence an iter_proc_io_as! expansion built, and what it yielded
    expansion,  \* one run of #[processor] or derive(Processor) at compile time
    notes       \* one run of note! or note_array! at compile time

\* The compile-time state: the macros run before any unit exists.
compileVars == <<expansion, notes>>

\* No macro is being expanded.
NoExpansion == [stage |-> "none"]

NoNotes == [stage |-> "none"]

unitVars == <<fields, pc, idx, result, outputs, calls, failedAt, writes, entry, prior, atCall>>

Unit(s) == Units[def][s]

\* Self { counter: initial_count, a: 0, b: 0 } (AddToCounter::new); the derive
\* struct's output fields start at their default as well.
New(unit, initial_count) ==
    [name \in unit.fields |-> IF name = StateField(unit) THEN initial_count ELSE 0]

NoBlock == [n |-> 0, input_specs |-> <<>>, output_spec |-> <<>>, inputs |-> <<>>]

InitUnits(d, initial_count) ==
    /\ def = d
    /\ fields = [s \in Strategies |-> New(Units[d][s], initial_count)]
    /\ graph = [wired |-> FALSE,
                input_spec |-> [s \in Strategies |-> <<>>],
                output_spec |-> [s \in Strategies |-> <<>>],
                slots |-> <<>>, conn |-> <<>>]
    /\ block = NoBlock
    /\ pc = [s \in Strategies |-> "idle"]
    /\ idx = [s \in Strategies |-> 0]
    /\ result = [s \in Strategies |-> "none"]
    /\ outputs = [s \in Strategies |-> <<>>]
    /\ calls = [s \in Strategies |-> <<>>]
    /\ failedAt = [s \in Strategies |-> {}]
    /\ writes = [s \in Strategies |-> {}]
    /\ entry = fields
    /\ prior = fields
    /\ atCall = fields

\* ---------------------------------------------------------------- actions
\* unit.node(graph, slots...): graph.node(self) makes a node with one unconnected
\* input per input_spec entry, then the slots are connected. (The derive unit,
\* which has no node(), is wired by hand to the same producers.)
Node(slots) ==
    /\ graph' = [wired |-> TRUE,
                 input_spec |-> [s \in Strategies |-> Unit(s).input_spec],
                 output_spec |-> [s \in Strategies |-> Unit(s).output_spec],
                 slots |-> slots,
                 conn  |-> NodeConnect([k \in 1..Len(Unit("attr").input_spec) |-> NoValue],
                                       slots, 0)]
    /\ UNCHANGED <<compileVars, zip, def, block, partial, unitVars>>

\* The sample values a producer puts on an Int channel.
Vals == {-1, 2}

\* With `partial` the engine's input buffers hold Option<T> per sample, as the
\* derive unit reads them (inp[__i] is an Option): only then can a connected
\* channel lack a value at an index. The #[processor] unit reads &[T] and is
\* driven only by runs without such holes.
Live == IF partial THEN {"derive"} ELSE Strategies

Samples == {Some(v) : v \in Vals} \cup (IF partial THEN {NoValue} ELSE {})

\* The channels the graph can hand to process for the k-th input.
ChannelChoices(k, n) ==
    IF graph.conn[k] = NoValue THEN {Absent}
    ELSE IF ProducerKind(graph.conn[k][1]) = "Int"
    THEN {Buffer("Int", d) : d \in [1..n -> Samples]}
    ELSE {Buffer("Float", [j \in 1..n |-> Some(0)])}

BlockInputs(n) == Product([k \in 1..Len(graph.conn) |-> ChannelChoices(k, n)])

\* The block of the scenario: a = [1, 2, 3], b = [10, 20, 30].
ExampleInputs ==
    << Buffer("Int", <<Some(1), Some(2), Some(3)>>),
       Buffer("Int", <<Some(10), Some(20), Some(30)>>) >>

\* The engine calls process(inputs, outputs) on the live units with a fresh
\* block: the input channels of the node, output buffers `outs[s]`.
CanEnter ==
    /\ graph.wired
    /\ \A s \in Strategies : pc[s] = "idle"
    /\ \A s \in Live :
          /\ fields[s][StateField(Unit(s))] <= MaxCounter
          /\ fields[s][StateField(Unit(s))] >= -MaxCounter

EnterProcess(n, chans, outs) ==
    /\ block' = [n |-> n,
                 input_specs |-> [s \in Strategies |-> Unit(s).input_spec],
                 output_spec |-> [s \in Strategies |-> Unit(s).output_spec],
                 inputs |-> chans]
    /\ pc' = [s \in Strategies |-> IF s \in Live THEN "loop" ELSE pc[s]]
    /\ outputs' = [s \in Strategies |-> IF s \in Live THEN outs[s] ELSE outputs[s]]
    /\ UNCHANGED <<compileVars, zip, def, graph, partial, fields, idx, result, calls, failedAt, writes,
                   entry, prior, atCall>>

\* A process call on the buffers the unit's own create_output_buffers made.
BeginBlock(n, chans) ==
    EnterProcess(n, chans, [s \in Strategies |-> create_output_buffers(Unit(s), n)])

\* One iteration of the `for __i in 0..inputs.block_size()` loop of unit s.
Advance(s, it) ==
    /\ fields' = [fields EXCEPT ![s] = it.fields]
    /\ outputs' = [outputs EXCEPT ![s] = it.outs]
    /\ prior' = [prior EXCEPT ![s] = fields[s]]
    /\ atCall' = [atCall EXCEPT ![s] = it.seen]
    /\ calls' = [calls EXCEPT ![s] = IF it.called THEN Append(@, idx[s]) ELSE @]
    /\ failedAt' = [failedAt EXCEPT ![s] = IF it.failed THEN @ \cup {idx[s]} ELSE @]
    /\ writes' = [writes EXCEPT ![s] = @ \cup it.wrote]
    /\ IF it.outcome = "continue"
       THEN /\ idx' = [idx EXCEPT ![s] = NextIndex(@)]
            /\ UNCHANGED <<pc, result>>
       ELSE /\ pc' = [pc EXCEPT ![s] = "done"]
            /\ result' = [result EXCEPT ![s] = it.outcome]
            /\ UNCHANGED idx
    /\ UNCHANGED <<compileVars, zip, def, graph, partial, block, entry>>

StepAttr ==
    /\ pc["attr"] = "loop"
    /\ idx["attr"] < block.n
    /\ Advance("attr", AttrIteration(Unit("attr"), fields["attr"], outputs["attr"],
                                     block.inputs, idx["attr"]))

\* The engine runs one node after the other: the derive unit's process call
\* starts once the other unit's has returned.
StepDerive ==
    /\ pc["derive"] = "loop"
    /\ pc["attr"] # "loop"
    /\ idx["derive"] < block.n
    /\ Advance("derive", DeriveIteration(Unit("derive"), fields["derive"], outputs["derive"],
                                         block.inputs, idx["derive"]))

\* The loop is over: `Ok(())`.
ReturnOk(s) ==
    /\ pc[s] = "loop"
    /\ s = "derive" => pc["attr"] # "loop"
    /\ idx[s] >= block.n
    /\ pc' = [pc EXCEPT ![s] = "done"]
    /\ result' = [result EXCEPT ![s] = "Ok"]
    /\ UNCHANGED <<compileVars, zip, def, graph, partial, block, fields, idx, outputs, calls, failedAt,
                   writes, entry, prior, atCall>>

\* Every live process call has returned: the engine takes the results and the
\* output buffers, and the borrowed block is gone; the units keep their fields.
Collect ==
    /\ \E s \in Strategies : pc[s] = "done"
    /\ \A s \in Strategies : pc[s] # "loop"
    /\ block' = NoBlock
    /\ pc' = [s \in Strategies |-> "idle"]
    /\ idx' = [s \in Strategies |-> 0]
    /\ result' = [s \in Strategies |-> "none"]
    /\ outputs' = [s \in Strategies |-> <<>>]
    /\ calls' = [s \in Strategies |-> <<>>]
    /\ failedAt' = [s \in Strategies |-> {}]
    /\ writes' = [s \in Strategies |-> {}]
    /\ entry' = fields
    /\ prior' = fields
    /\ atCall' = fields
    /\ UNCHANGED <<compileVars, zip, def, graph, partial, fields>>


\* ------------------------------------------------------- iter_proc_io_as!
\* A type annotation of the macro: Any, or an element type.
Annotations == {"Any", "i64", "f32"}

InputTypeLists ==
    {<<>>} \cup {<<a>> : a \in Annotations} \cup {<<a, b>> : a \in Annotations, b \in Annotations}

OutputTypeLists == {<<>>} \cup {<<a>> : a \in Annotations}

\* The channel buffers a caller's ProcessorInputs / ProcessorOutputs can hold:
\* their kinds and lengths.
Channels == {[kind |-> k, len |-> n] : k \in {"Int", "Float"}, n \in 0..MaxBlockSize}

\* As many channels as there are annotations, or one fewer, or one more.
ChannelLists(count) ==
    LET full == [kind |-> "Int", len |-> MaxBlockSize] IN
    Product([k \in 1..count |-> Channels])
        \cup {[k \in 1..(count + 1) |-> full]}
        \cup (IF count > 0 THEN {[k \in 1..(count - 1) |-> full]} ELSE {})

\* One chunk of the izip!: the iterator over channel `chan` of one side, checked
\* against `ty` unless the annotation is Any.
Chunk(side, i, ty) == [side |-> side, chan |-> i, any |-> ty = "Any", ty |-> ty]

\* `chunks`: the inputs' chunks in annotation order, then the outputs'.
ChunksOutputsFirst(input_types, output_types) ==
    [k \in 1..Len(output_types) |-> Chunk("out", Enumerate(k), output_types[k])]
        \o [k \in 1..Len(input_types) |-> Chunk("in", Enumerate(k), input_types[k])]
Chunks(input_types, output_types) ==
    [k \in 1..Len(input_types) |-> Chunk("in", Enumerate(k), input_types[k])]
        \o [k \in 1..Len(output_types) |-> Chunk("out", Enumerate(k), output_types[k])]

ChunkChannel(c, ins, outs) == IF c.side = "in" THEN ins[c.chan + 1] ELSE outs[c.chan + 1]

\* iter_input_as::<T>(0)? / iter_output_mut_as::<T>(0)? fail on a channel that
\* is not of T's kind; iter_input(0) / iter_output_mut(0) check nothing.
ChunkOk(c, ins, outs) == c.any \/ ChunkChannel(c, ins, outs).kind = SignalType(c.ty)

NoZip == [state |-> "none", input_types |-> <<>>, output_types |-> <<>>,
          ins |-> <<>>, outs |-> <<>>, cursors |-> <<>>, yielded |-> <<>>]

\* The block expression the macro expands to, evaluated on `ins` and `outs`:
\* the two slice patterns (else panic!), then the chunks in order, each `?`
\* returning the first error, then izip!.
Built(input_types, output_types, ins, outs) ==
    LET chunks == Chunks(input_types, output_types)
        base == [NoZip EXCEPT !.input_types = input_types, !.output_types = output_types,
                              !.ins = ins, !.outs = outs]
    IN
    IF Len(ins) # Len(input_types) THEN [base EXCEPT !.state = "panic: Expected inputs"]
    ELSE IF Len(outs) # Len(output_types) THEN [base EXCEPT !.state = "panic: Expected outputs"]
    ELSE IF \E k \in 1..Len(chunks) : ~ChunkOk(chunks[k], ins, outs)
    THEN [base EXCEPT !.state = "Err(type mismatch)"]
    ELSE [base EXCEPT !.state = "iterating",
                      !.cursors = [k \in 1..Len(chunks) |-> 0]]

IterBuild(input_types, output_types, ins, outs) ==
    /\ Len(input_types) + Len(output_types) > 0
    /\ zip' = Built(input_types, output_types, ins, outs)
    /\ UNCHANGED <<compileVars, def, graph, partial, block, unitVars>>

\* The element chunk k yields at its cursor: that position of its channel.
Element(c, at) == [side |-> c.side, chan |-> c.chan, at |-> at]

\* How many of the chunks, asked in order, yield an element before one is
\* exhausted: Zip asks its left side first and stops at the first None.
RECURSIVE Asked(_, _, _)
Asked(chunks, z, k) ==
    IF k > Len(chunks) THEN Len(chunks)
    ELSE IF z.cursors[k] >= ChunkChannel(chunks[k], z.ins, z.outs).len THEN k
    ELSE Asked(chunks, z, k + 1)

\* One next() on the zipped sequence.
IterNext ==
    /\ zip.state = "iterating"
    /\ LET chunks == Chunks(zip.input_types, zip.output_types)
           asked  == Asked(chunks, zip, 1)
           full   == \A k \in 1..Len(chunks) :
                        zip.cursors[k] < ChunkChannel(chunks[k], zip.ins, zip.outs).len
       IN zip' = [zip EXCEPT
                    !.state = IF full THEN "iterating" ELSE "exhausted",
                    !.cursors = [k \in 1..Len(chunks) |->
                                   IF full \/ k < asked THEN zip.cursors[k] + 1
                                   ELSE zip.cursors[k]],
                    !.yielded = IF full
                                THEN Append(@, [k \in 1..Len(chunks) |->
                                                   Element(chunks[k], zip.cursors[k])])
                                ELSE @]
    /\ UNCHANGED <<compileVars, def, graph, partial, block, unitVars>>

vars == <<compileVars, zip, def, graph, partial, block, unitVars>>

Init ==
    /\ \E d \in DOMAIN Units, initial_count \in 0..1 : InitUnits(d, initial_count)
    /\ partial \in BOOLEAN
    /\ zip = NoZip
    /\ expansion = NoExpansion
    /\ notes = NoNotes

Next ==
    \/ /\ ~graph.wired
       /\ \E slots \in NodeSlots(Unit("attr")) : Node(slots)
    \/ /\ CanEnter
       /\ \E n \in 0..MaxBlockSize : \E chans \in BlockInputs(n) : BeginBlock(n, chans)
    \/ /\ CanEnter
       /\ def = AddToCounter.ident
       /\ graph.conn = <<Some("int_src"), Some("int_src")>>
       /\ BeginBlock(3, ExampleInputs)
    \/ StepAttr
    \/ StepDerive
    \/ \E s \in Strategies : ReturnOk(s)
    \/ Collect

Spec == Init /\ [][Next]_vars

\* A hand-written unit's use of iter_proc_io_as!: one expansion is evaluated on
\* the caller's inputs and outputs, and the sequence it built is run to its end.
InitIter ==
    /\ InitUnits(AddToCounter.ident, 0)
    /\ partial = FALSE
    /\ zip = NoZip
    /\ expansion = NoExpansion
    /\ notes = NoNotes

NextIter ==
    \/ /\ zip.state = "none"
       /\ \E it \in InputTypeLists, ot \in OutputTypeLists :
             \E ins \in ChannelLists(Len(it)), outs \in ChannelLists(Len(ot)) :
                IterBuild(it, ot, ins, outs)
    \/ /\ zip.state = "none"
       /\ IterBuild(<<"i64", "f32">>, <<"Any">>,
                    <<[kind |-> "Int", len |-> 4], [kind |-> "Float", len |-> 4]>>,
                    <<[kind |-> "Int", len |-> 4]>>)
    \/ IterNext

SpecIter == InitIter /\ [][NextIter]_vars

\* A process call on output buffers the caller brought, at least one of which
\* is not of the declared kind.
ForeignOutputs(s, n) ==
    LET own == create_output_buffers(Unit(s), n) IN
    {outs \in Product([k \in 1..Len(own) |->
                          {own[k], Buffer("Float", [j \in 1..n |-> 0])}]) : outs # own}

BeginForeign(n, chans) ==
    \E kinds \in ForeignOutputs("attr", n) :
        EnterProcess(n, chans,
                     [s \in Strategies |->
                        [k \in 1..Len(kinds) |-> kinds[k]]])

NextForeign ==
    \/ Next
    \/ /\ CanEnter
       /\ \E n \in 0..MaxBlockSize : \E chans \in BlockInputs(n) : BeginForeign(n, chans)

SpecForeign == Init /\ [][NextForeign]_vars

\* ------------------------------------------ #[processor(...)]: the arguments
\* A syn::Meta of the attribute's argument list: a bare path (`foo`), a list
\* (`path(nested, ...)`, value = the nested paths) or `path = value` (value =
\* "path" for an Expr::Path, "lit" for any other expression).
Meta(kind, path, value) == [kind |-> kind, path |-> path, value |-> value]

\* A nested path that is not a single identifier.
NotIdent == "std::fmt::Debug"

\* The attribute's tokens: whether parse_terminated accepts them, and the
\* metas it yields then.
Attr(parsed, args) == [parsed |-> parsed, args |-> args]

AttrArgs0 ==
    [err |-> "", extra_derives |-> <<>>, allocate_fn |-> None, resize_buffers_fn |-> None]

\* One turn of `for arg in args.iter()`.
AttrArg(acc, arg) ==
    IF acc.err # "" THEN acc
    ELSE IF arg.kind = "List"
    THEN IF arg.path = "derive"
         THEN IF \E k \in 1..Len(arg.value) : arg.value[k] = NotIdent
              THEN \* meta.path.get_ident().unwrap()
                   [acc EXCEPT !.err = "panic: called Option::unwrap() on a None value"]
              ELSE [acc EXCEPT !.extra_derives = @ \o arg.value]
         ELSE [acc EXCEPT !.err = "Unknown attribute. Only derive is supported."]
    ELSE IF arg.kind = "NameValue"
    THEN IF arg.path = "allocate"
         THEN IF arg.value = "path"
              THEN [acc EXCEPT !.allocate_fn = arg.path]
              ELSE [acc EXCEPT !.err = "Expected a path for allocate_fn"]
         ELSE IF arg.path = "resize_buffers"
         THEN IF arg.value = "path"
              THEN [acc EXCEPT !.resize_buffers_fn = arg.path]
              ELSE [acc EXCEPT !.err = "Expected a path for resize_buffers_fn"]
         ELSE [acc EXCEPT !.err = "Unknown attribute. Only allocate_fn and resize_buffers_fn are supported."]
    ELSE \* a syn::Meta::Path matches neither `if let`
         acc

RECURSIVE AttrArgs(_, _)
AttrArgs(acc, args) ==
    IF args = <<>> THEN acc ELSE AttrArgs(AttrArg(acc, Head(args)), Tail(args))

\* `if let Ok(args) = args { for arg in args.iter() { .. } }`
processor_attribute_args(attr) ==
    IF attr.parsed THEN AttrArgs(AttrArgs0, attr.args) ELSE AttrArgs0

\* ------------------------------------------------- the inputs of the macros
MaxParams == 2
MaxMetas == 2

\* All sequences of at most n elements of S.
RECURSIVE SeqsUpTo(_, _)
SeqsUpTo(S, n) ==
    IF n = 0 THEN {<<>>}
    ELSE LET shorter == SeqsUpTo(S, n - 1)
         IN shorter \cup {Append(q, x) : q \in shorter, x \in S}

Shapes == {"path", "ref", "ref_mut", "group_ref", "group_ref_mut", "group_other"}

RoleNames == {"state", "input", "output"}

\* A `self` parameter (syn::FnArg::Receiver).
Receiver ==
    [kind |-> "receiver", name |-> "self", pat_ident |-> TRUE, attrs |-> <<>>,
     ty |-> Ty("path", "Self")]

\* A parameter whose pattern is not an identifier, such as `(a, b): &T`.
TuplePattern(attrs, ty) ==
    [kind |-> "typed", name |-> "(a, b)", pat_ident |-> FALSE, attrs |-> attrs, ty |-> ty]

\* The parameters a #[processor] function can declare: every role tag on
\* every type shape, no attribute, an attribute that is no role tag before or
\* after a role tag, two role tags, ProcEnv with and without a tag, a receiver,
\* a pattern.
Params ==
    {Arg("x", <<r>>, Ty(sh, "i64")) : r \in RoleNames, sh \in Shapes}
      \cup {Arg("x", a, Ty("ref", "i64")) :
               a \in {<<>>, <<"allow">>, <<"allow", "input">>, <<"input", "allow">>,
                      <<"input", "state">>}}
      \cup {Arg("env", <<>>, Ty("path", "ProcEnv")),
            Arg("ctx", <<"input">>, Ty("path", "ProcEnv")),
            Receiver,
            TuplePattern(<<"input">>, Ty("ref", "i64"))}

Items == SeqsUpTo(Params, MaxParams)

Metas ==
    {Meta("Path", "foo", <<>>),
     Meta("List", "derive", <<"Clone">>),
     Meta("List", "derive", <<NotIdent>>),
     Meta("List", "serde", <<"Clone">>),
     Meta("NameValue", "allocate", "path"),
     Meta("NameValue", "allocate", "lit"),
     Meta("NameValue", "resize_buffers", "path"),
     Meta("NameValue", "resize_buffers", "lit"),
     Meta("NameValue", "foo", "path")}

Attrs == {Attr(FALSE, <<>>)} \cup {Attr(TRUE, a) : a \in SeqsUpTo(Metas, MaxMetas)}

\* ------------------------------------------- #[processor]: one expansion
NoUnit == [strategy |-> "none"]

\* processor_attribute(attr, item) about to run.
Expansion(attr, item) ==
    [macro |-> "processor", stage |-> "attr", attr |-> attr, item |-> item,
     pos |-> 0, args |-> AttrArgs0, acc |-> Parsed0, struct_fields |-> <<>>,
     roles |-> <<>>, diag |-> "", unit |-> NoUnit,
     \* impl_processor's part
     fields |-> <<>>, in_pos |-> 0, out_pos |-> 0,
     input_field_signal_types |-> <<>>, output_field_signal_types |-> <<>>]

\* What one turn of the argument loop did with its argument: the vector it
\* pushed to, the environment handle it set, or the error it returned.
Classified(acc, acc2) ==
    IF acc2.err # "" THEN "rejected"
    ELSE IF acc2.proc_env_ident # acc.proc_env_ident THEN "Environment"
    ELSE IF Len(acc2.state) > Len(acc.state) THEN "State"
    ELSE IF Len(acc2.input) > Len(acc.input) THEN "Input"
    ELSE IF Len(acc2.output) > Len(acc.output) THEN "Output"
    ELSE "none"

runVars == <<zip, def, graph, partial, block, unitVars>>

\* Lines 21-78: the attribute's arguments.
ExpandAttr ==
    /\ expansion.macro = "processor"
    /\ expansion.stage = "attr"
    /\ LET a == processor_attribute_args(expansion.attr) IN
       expansion' = [expansion EXCEPT !.args = a, !.diag = a.err,
                                      !.stage = IF a.err # "" THEN "error" ELSE "args"]
    /\ UNCHANGED <<notes, runVars>>

\* One turn of `for arg in item.sig.inputs.iter()`.
ExpandArg ==
    /\ expansion.macro = "processor"
    /\ expansion.stage = "args"
    /\ expansion.pos < Len(expansion.item)
    /\ LET acc2 == ParseArg(expansion.acc, expansion.item[expansion.pos + 1]) IN
       expansion' = [expansion EXCEPT !.acc = acc2, !.diag = acc2.err,
                                      !.pos = @ + 1,
                                      !.roles = Append(@, Classified(expansion.acc, acc2)),
                                      !.stage = IF acc2.err # "" THEN "error" ELSE "args"]
    /\ UNCHANGED <<notes, runVars>>

\* `for arg in state.iter()`: the struct fields of the #[state] arguments.
ExpandState ==
    /\ expansion.macro = "processor"
    /\ expansion.stage = "args"
    /\ expansion.pos = Len(expansion.item)
    /\ LET s == StateFields([err |-> "", fields |-> <<>>], expansion.acc.state) IN
       expansion' = [expansion EXCEPT !.struct_fields = s.fields, !.diag = s.err,
                                      !.stage = IF s.err # "" THEN "error" ELSE "emit"]
    /\ UNCHANGED <<notes, runVars>>

\* The rest of processor_attribute: the struct, its impl and node() are emitted.
ExpandEmit ==
    /\ expansion.macro = "processor"
    /\ expansion.stage = "emit"
    /\ expansion' = [expansion EXCEPT
                       !.stage = "done",
                       !.unit = AttrUnit([ident |-> "unit", body |-> "add",
                                          args |-> expansion.item])]
    /\ UNCHANGED <<notes, runVars>>

\* ---------------------------------------- derive(Processor): one expansion
TypeNames == {"bool", "f32", "f64", "Float", "i64", "MidiMessage", "u8", "String"}

\* The named fields a struct given to derive(Processor) can have.
Field(name, attrs, ty) == [name |-> name, attrs |-> attrs, ty |-> ty]

Fields ==
    {Field("x", a, Ty("path", t)) : a \in {<<>>, <<"input">>, <<"output">>}, t \in TypeNames}
      \cup {Field("x", <<"input">>, Ty("ref", "f32")),
            Field("x", <<"output">>, Ty("ref", "f32")),
            Field("x", <<"serde", "input">>, Ty("path", "f32"))}

Structs == SeqsUpTo(Fields, MaxParams)

\* impl_processor(ast) about to run on a struct with these named fields.
DeriveExpansion(named) ==
    [Expansion(Attr(TRUE, <<>>), <<>>) EXCEPT
        !.macro = "derive", !.stage = "fields", !.fields = named]

\* One turn of `for field in input_fields`.
DeriveInputField ==
    /\ expansion.macro = "derive"
    /\ expansion.stage = "fields"
    /\ expansion.in_pos < Len(input_fields(expansion.fields))
    /\ LET f == input_fields(expansion.fields)[expansion.in_pos + 1]
           k == input_field_signal_type(f.ty.elem)
           d == IF f.ty.shape # "path" THEN "panic: Input fields must have a type path"
                ELSE IF k = Unsupported THEN "panic: Unsupported input type"
                ELSE ""
       IN expansion' =
            IF d # "" THEN [expansion EXCEPT !.stage = "error", !.diag = d]
            ELSE [expansion EXCEPT !.in_pos = @ + 1,
                                   !.input_field_signal_types = Append(@, k)]
    /\ UNCHANGED <<notes, runVars>>

\* One turn of `for field in output_fields`, after the input fields.
DeriveOutputField ==
    /\ expansion.macro = "derive"
    /\ expansion.stage = "fields"
    /\ expansion.in_pos = Len(input_fields(expansion.fields))
    /\ expansion.out_pos < Len(output_fields(expansion.fields))
    /\ LET f == output_fields(expansion.fields)[expansion.out_pos + 1]
           k == output_field_signal_type(f.ty.elem)
           d == IF f.ty.shape # "path" THEN "panic: Output fields must have a type path"
                ELSE IF k = Unsupported THEN "panic: Unsupported output type"
                ELSE ""
       IN expansion' =
            IF d # "" THEN [expansion EXCEPT !.stage = "error", !.diag = d]
            ELSE [expansion EXCEPT !.out_pos = @ + 1,
                                   !.output_field_signal_types = Append(@, k)]
    /\ UNCHANGED <<notes, runVars>>

\* The impl is emitted: input_spec / output_spec pair each field name with the
\* signal type found for it.
DeriveEmit ==
    /\ expansion.macro = "derive"
    /\ expansion.stage = "fields"
    /\ expansion.in_pos = Len(input_fields(expansion.fields))
    /\ expansion.out_pos = Len(output_fields(expansion.fields))
    /\ LET ins  == input_fields(expansion.fields)
           outs == output_fields(expansion.fields)
       IN expansion' =
            [expansion EXCEPT
               !.stage = "done",
               !.unit = [strategy    |-> "derive",
                         input_spec  |-> [k \in 1..Len(ins) |->
                                            SignalSpec(ins[k].name,
                                                       expansion.input_field_signal_types[k])],
                         output_spec |-> [k \in 1..Len(outs) |->
                                            SignalSpec(outs[k].name,
                                                       expansion.output_field_signal_types[k])]]]
    /\ UNCHANGED <<notes, runVars>>

\* ------------------------------------------------ the macros at compile time
InitExpand ==
    /\ InitUnits(AddToCounter.ident, 0)
    /\ partial = FALSE
    /\ zip = NoZip
    /\ notes = NoNotes
    /\ \/ \E item \in Items : expansion = Expansion(Attr(TRUE, <<>>), item)
       \/ \E attr \in Attrs : expansion = Expansion(attr, AddToCounter.args)
       \/ expansion = Expansion(Attr(TRUE, <<>>), Interleaved.args)
       \/ \E named \in Structs : expansion = DeriveExpansion(named)

NextExpand ==
    \/ ExpandAttr
    \/ ExpandArg
    \/ ExpandState
    \/ ExpandEmit
    \/ DeriveInputField
    \/ DeriveOutputField
    \/ DeriveEmit

SpecExpand == InitExpand /\ [][NextExpand]_vars

\* ------------------------------------------------ note!, note_array!: parse_note
\* A string is a sequence of one-character strings.
MaxNoteLen == 3

NoteAlphabet == {"C", "A", "B", "b", "#", "4", "9", "-", " ", "x"}

\* The literals of the doc examples, and names for the other letters and for
\* the ends of the range.
NoteExamples ==
    {<<"C", "4">>, <<"C", "#", "4">>, <<"B", "b", "3">>,
     <<"C", "4", " ", "D", "4", " ", "E", "4">>,
     <<"f", "4", " ", "g", "9", " ", "G", "#", "9">>,
     <<" ", "e", "b", "0", " ">>}

\* A name with more sharps than an i8 can count, and one whose flats bring the
\* note back into the range afterwards.
ManySharps == <<"B">> \o [k \in 1..117 |-> "#"] \o <<"4">>

ManySharpsAndFlats ==
    <<"B">> \o [k \in 1..117 |-> "#"] \o [k \in 1..117 |-> "b"] \o <<"4">>

\* str::to_uppercase, on the characters the inputs are made of.
ToUppercase(c) ==
    CASE c = "a" -> "A" [] c = "b" -> "B" [] c = "c" -> "C" [] c = "d" -> "D"
      [] c = "e" -> "E" [] c = "f" -> "F" [] c = "g" -> "G" [] c = "x" -> "X"
      [] OTHER -> c

IsWhitespace(c) == c = " "

RECURSIVE TrimStart(_)
TrimStart(s) ==
    IF s # <<>> /\ IsWhitespace(Head(s)) THEN TrimStart(Tail(s)) ELSE s

RECURSIVE TrimEnd(_)
TrimEnd(s) ==
    IF s # <<>> /\ IsWhitespace(s[Len(s)]) THEN TrimEnd(SubSeq(s, 1, Len(s) - 1)) ELSE s

\* str::trim
Trim(s) == TrimEnd(TrimStart(s))

\* str::split_whitespace: the maximal runs of non-whitespace, in order.
SplitWhitespace(s) ==
    LET starts == {i \in 1..Len(s) :
                     ~IsWhitespace(s[i]) /\ (i = 1 \/ IsWhitespace(s[i - 1]))}
        start(k) == CHOOSE i \in starts : Cardinality({j \in starts : j < i}) = k - 1
        end(i)   == CHOOSE j \in i..Len(s) :
                       /\ \A m \in i..j : ~IsWhitespace(s[m])
                       /\ (j = Len(s) \/ IsWhitespace(s[j + 1]))
    IN [k \in 1..Cardinality(starts) |-> SubSeq(s, start(k), end(start(k)))]

\* char::to_digit(10)
Digits ==
    ("0" :> 0) @@ ("1" :> 1) @@ ("2" :> 2) @@ ("3" :> 3) @@ ("4" :> 4)
        @@ ("5" :> 5) @@ ("6" :> 6) @@ ("7" :> 7) @@ ("8" :> 8) @@ ("9" :> 9)

\* The first `match`: the semitone of the note letter.
NoteLetters ==
    ("C" :> 0) @@ ("D" :> 2) @@ ("E" :> 4) @@ ("F" :> 5) @@ ("G" :> 7)
        @@ ("A" :> 9) @@ ("B" :> 11)

\* i8 and u8 arithmetic.
InI8(x) == x >= -128 /\ x <= 127

WrapI8(x) == ((x + 128) % 256) - 128

\* `note as u8`
AsU8(x) == x % 256

\* `note += 1` / `note -= 1`: a build with overflow checks panics on overflow,
\* one without them wraps.
AddAssignI8(cur, d, overflow_checks) ==
    LET v == cur.note + d IN
    IF InI8(v) THEN [cur EXCEPT !.note = v]
    ELSE IF overflow_checks
    THEN [cur EXCEPT !.pc = "panicked", !.msg = "attempt to add with overflow"]
    ELSE [cur EXCEPT !.note = WrapI8(v)]

\* parse_note(input) about to run: trim, to_uppercase, chars().
ParseNoteCall(input) ==
    [pc |-> "first",
     chars |-> LET t == Trim(input) IN [k \in 1..Len(t) |-> ToUppercase(t[k])],
     note |-> 0, octave |-> 0, msg |-> "", value |-> 0]

\* `let mut note: i8 = match chars.next().expect(..) { .. }`
ParseNoteFirst(cur) ==
    IF cur.chars = <<>>
    THEN [cur EXCEPT !.pc = "panicked", !.msg = "Invalid note: empty input"]
    ELSE IF Head(cur.chars) \in DOMAIN NoteLetters
    THEN [cur EXCEPT !.pc = "loop", !.chars = Tail(@), !.note = NoteLetters[Head(cur.chars)]]
    ELSE [cur EXCEPT !.pc = "panicked", !.chars = Tail(@),
                     !.msg = "Invalid note: invalid note name"]

\* One turn of `while !stop`.
ParseNoteLoopSharpForFlat(cur, overflow_checks) ==
    IF cur.chars = <<>> THEN [cur EXCEPT !.pc = "finish"]
    ELSE LET next == Head(cur.chars)
             rest == Tail(cur.chars)
         IN
         CASE next = "#" -> AddAssignI8([cur EXCEPT !.chars = rest], 1, overflow_checks)
           [] next = "B" -> AddAssignI8([cur EXCEPT !.chars = rest], 1, overflow_checks)
           [] next \in DOMAIN Digits ->
                [cur EXCEPT !.chars = rest, !.octave = Digits[next] + 1, !.pc = "finish"]
           [] OTHER ->
                [cur EXCEPT !.chars = rest, !.pc = "panicked",
                            !.msg = "Invalid note: unexpected character"]
ParseNoteLoop(cur, overflow_checks) ==
    IF cur.chars = <<>> THEN [cur EXCEPT !.pc = "finish"]
    ELSE LET next == Head(cur.chars)
             rest == Tail(cur.chars)
         IN
         CASE next = "#" -> AddAssignI8([cur EXCEPT !.chars = rest], 1, overflow_checks)
           [] next = "B" -> AddAssignI8([cur EXCEPT !.chars = rest], -1, overflow_checks)
           [] next \in DOMAIN Digits ->
                [cur EXCEPT !.chars = rest, !.octave = Digits[next] + 1, !.pc = "finish"]
           [] next = "-" ->
                \* chars.next().unwrap().to_digit(10).unwrap()
                IF rest = <<>> \/ Head(rest) \notin DOMAIN Digits
                THEN [cur EXCEPT !.chars = IF rest = <<>> THEN rest ELSE Tail(rest),
                                 !.pc = "panicked",
                                 !.msg = "called Option::unwrap() on a None value"]
                ELSE [cur EXCEPT !.chars = Tail(rest), !.octave = 1 - Digits[Head(rest)],
                                 !.pc = "finish"]
           [] OTHER ->
                [cur EXCEPT !.chars = rest, !.pc = "panicked",
                            !.msg = "Invalid note: unexpected character"]

\* checked_mul(12), checked_add(octave), `note as u8`.
ParseNoteFinish(cur) ==
    LET octave == cur.octave * 12
        note   == cur.note + octave
    IN
    IF ~InI8(octave)
    THEN [cur EXCEPT !.pc = "panicked", !.msg = "Invalid note: octave out of range"]
    ELSE IF ~InI8(note)
    THEN [cur EXCEPT !.pc = "panicked", !.msg = "Invalid note: note out of range"]
    ELSE [cur EXCEPT !.pc = "returned", !.value = AsU8(note)]

\* note(input) / note_array(input) about to run on the literal's value.
NoteExpansion(macro, input) ==
    [macro |-> macro, stage |-> "start", input |-> input, names |-> <<>>, name |-> <<>>,
     parsed |-> <<>>, out |-> <<>>, diag |-> "", cur |-> ParseNoteCall(<<>>)]

\* note: `parse_note(&input)` on the whole literal; note_array:
\* `input.split_whitespace().map(parse_note)`. The first call begins.
NoteBegin ==
    /\ notes.stage = "start"
    /\ LET names == IF notes.macro = "note" THEN <<notes.input>>
                    ELSE SplitWhitespace(notes.input)
       IN notes' =
            IF names = <<>>
            THEN [notes EXCEPT !.stage = "done"]
            ELSE [notes EXCEPT !.stage = "parsing", !.name = Head(names),
                               !.names = Tail(names), !.cur = ParseNoteCall(Head(names))]
    /\ UNCHANGED <<expansion, runVars>>

NoteFirst ==
    /\ notes.stage = "parsing"
    /\ notes.cur.pc = "first"
    /\ notes' = [notes EXCEPT !.cur = ParseNoteFirst(@)]
    /\ UNCHANGED <<expansion, runVars>>

NoteLoop ==
    /\ notes.stage = "parsing"
    /\ notes.cur.pc = "loop"
    /\ \E overflow_checks \in BOOLEAN :
          notes' = [notes EXCEPT !.cur = ParseNoteLoop(@, overflow_checks)]
    /\ UNCHANGED <<expansion, runVars>>

NoteFinish ==
    /\ notes.stage = "parsing"
    /\ notes.cur.pc = "finish"
    /\ notes' = [notes EXCEPT !.cur = ParseNoteFinish(@)]
    /\ UNCHANGED <<expansion, runVars>>

\* parse_note returned: the value is the next element of the output; the
\* next name is parsed, or the macro's output is complete.
NoteReturn ==
    /\ notes.stage = "parsing"
    /\ notes.cur.pc = "returned"
    /\ notes' =
         IF notes.names = <<>>
         THEN [notes EXCEPT !.stage = "done", !.out = Append(@, notes.cur.value),
                            !.parsed = Append(@, notes.name)]
         ELSE [notes EXCEPT !.out = Append(@, notes.cur.value),
                            !.parsed = Append(@, notes.name),
                            !.name = Head(notes.names), !.names = Tail(notes.names),
                            !.cur = ParseNoteCall(Head(notes.names))]
    /\ UNCHANGED <<expansion, runVars>>

\* parse_note panicked: the macro's expansion fails with the panic's message.
NotePanic ==
    /\ notes.stage = "parsing"
    /\ notes.cur.pc = "panicked"
    /\ notes' = [notes EXCEPT !.stage = "panic", !.diag = notes.cur.msg]
    /\ UNCHANGED <<expansion, runVars>>

NoteInputs == SeqsUpTo(NoteAlphabet, MaxNoteLen) \cup NoteExamples \cup {ManySharps, ManySharpsAndFlats}

InitNote ==
    /\ InitUnits(AddToCounter.ident, 0)
    /\ partial = FALSE
    /\ zip = NoZip
    /\ expansion = NoExpansion
    /\ \E macro \in {"note", "note_array"}, input \in NoteInputs :
          notes = NoteExpansion(macro, input)

NextNote ==
    \/ NoteBegin
    \/ NoteFirst
    \/ NoteLoop
    \/ NoteFinish
    \/ NoteReturn
    \/ NotePanic

SpecNote == InitNote /\ [][NextNote]_vars

\* ------------------------------------------------------------------ claims
Called(s) == pc[s] # "idle" /\ calls[s] # <<>>

\* The index of the latest iteration of unit s.
LastIndex(s) == calls[s][Len(calls[s])]

\* Channel k (1-based position) carries a value of the declared kind at index i.
HasValue(s, k, i) ==
    /\ block.inputs[k].present
    /\ block.inputs[k].kind = Unit(s).input_spec[k].kind
    /\ block.inputs[k].data[i + 1] # NoValue

\* C1: in a process call in which the transform never fails, either unit (also
\* one with no Input and no Output) invokes the transform once per sample index
\* 0, 1, ..., n-1, in increasing order, and then returns Ok(()).
C1_TransformOncePerIndex ==
    \A s \in Strategies :
        /\ \A k \in 1..Len(calls[s]) : calls[s][k] = k - 1
        /\ (pc[s] = "done" /\ failedAt[s] = {}) =>
              /\ calls[s] = [k \in 1..block.n |-> k - 1]
              /\ result[s] = "Ok"

C1_Witness ==
    /\ def = StateOnly.ident
    /\ block.n = MaxBlockSize
    /\ \A s \in Strategies :
          pc[s] = "done" /\ result[s] = "Ok" /\ Len(calls[s]) = MaxBlockSize

\* C2: fallback law. When the transform is invoked for index i, the field of an
\* Input whose channel is absent or has no value at i holds what it held after
\* index i-1 (at i = 0: what it held when process was entered); with a value at
\* i it holds that value.
C2_FallbackLaw ==
    \A s \in Strategies :
        Called(s) =>
            LET i == LastIndex(s) IN
            /\ i = 0 => prior[s] = entry[s]
            /\ \A k \in 1..Len(Unit(s).input_spec) :
                  LET name == Unit(s).input_spec[k].name IN
                  IF HasValue(s, k, i)
                  THEN atCall[s][name] = block.inputs[k].data[i + 1][1]
                  ELSE atCall[s][name] = prior[s][name]

\* A hole at an index above 0 on a connected channel, the field holding the
\* value (not zero) it latched before.
C2_Witness ==
    /\ Called("derive")
    /\ LastIndex("derive") > 0
    /\ \E k \in 1..Len(Unit("derive").input_spec) :
          /\ block.inputs[k].present
          /\ block.inputs[k].data[LastIndex("derive") + 1] = NoValue
          /\ atCall["derive"][Unit("derive").input_spec[k].name] = 2
          /\ prior["derive"][Unit("derive").input_spec[k].name] = 2

\* C3: once the transform has failed at index k, process returns that error: no
\* transform call and no output write at an index above k, and the call is over
\* with the transform's error as its result.
C3_ErrorStopsBlock ==
    \A s \in Strategies :
        \A k \in failedAt[s] :
            /\ \A j \in Range(calls[s]) : j <= k
            /\ \A w \in writes[s] : w[2] <= k
            /\ pc[s] = "done"
            /\ result[s] = "Err(negative input)"

\* sum over j <= i of (a[j] + b[j]) for two channels without holes
RECURSIVE PrefixSum(_, _, _)
PrefixSum(a, b, i) ==
    IF i < 0 THEN 0 ELSE a.data[i + 1][1] + b.data[i + 1][1] + PrefixSum(a, b, i - 1)

BothPresent ==
    /\ Len(block.inputs) = 2
    /\ \A k \in 1..2 :
          /\ block.inputs[k].present
          /\ block.inputs[k].kind = "Int"
          /\ \A j \in 1..block.n : block.inputs[k].data[j] # NoValue

\* C4: add_to_counter. With a and b present at every index and counter s0 at
\* entry, out[i] = s0 + sum over j <= i of (a[j] + b[j]); the call returns Ok
\* with counter = out[n-1]; a = [1,2,3], b = [10,20,30], s0 = 0 give [11,33,66].
C4_Accumulator ==
    \A s \in Strategies :
        (def = AddToCounter.ident /\ pc[s] \in {"loop", "done"} /\ BothPresent) =>
            /\ \A i \in Indices(idx[s]) :
                  outputs[s][1].data[i + 1] =
                      entry[s]["counter"] + PrefixSum(block.inputs[1], block.inputs[2], i)
            /\ pc[s] = "done" =>
                  /\ result[s] = "Ok"
                  /\ idx[s] = block.n
                  /\ block.n > 0 => fields[s]["counter"] = outputs[s][1].data[block.n]
                  /\ block.n = 0 => fields[s]["counter"] = entry[s]["counter"]
                  /\ (block.inputs = ExampleInputs /\ entry[s]["counter"] = 0) =>
                        outputs[s][1].data = <<11, 33, 66>>

C4_Witness ==
    /\ def = AddToCounter.ident
    /\ block.inputs = ExampleInputs
    /\ pc["attr"] = "done"
    /\ entry["attr"]["counter"] = 0
    /\ outputs["attr"][1].data = <<11, 33, 66>>
    /\ fields["attr"]["counter"] = 66

\* The Input (Output) parameters of a definition as declared: the parameters
\* tagged #[input] (#[output]), in declaration order.
Declared(name, role) ==
    LET d == CHOOSE d \in Definitions : d.ident = name
        tagged == SelectSeq(d.args, LAMBDA a : a.attrs # <<>> /\ Head(a.attrs) = role)
    IN [k \in 1..Len(tagged) |-> tagged[k].name]

\* C5: input_spec() and output_spec() return the same sequences at every call,
\* one entry per Input (Output) parameter, named after it, in declaration order;
\* and position i is the channel index process fetches that input from (writes
\* that output to), however the parameters are interleaved.
C5_SpecOrderIsChannelOrder ==
    \A s \in Strategies :
        LET u == Unit(s) IN
        /\ [k \in 1..Len(u.input_spec) |-> u.input_spec[k].name] = Declared(def, "input")
        /\ [k \in 1..Len(u.output_spec) |-> u.output_spec[k].name] = Declared(def, "output")
        /\ graph.wired =>
              graph.input_spec[s] = u.input_spec /\ graph.output_spec[s] = u.output_spec
        /\ pc[s] # "idle" =>
              block.input_specs[s] = graph.input_spec[s]
                 /\ block.output_spec[s] = graph.output_spec[s]
        /\ \A k \in 1..Len(u.get_inputs) :
              u.get_inputs[k].field = u.input_spec[k].name /\ u.get_inputs[k].index = k - 1
        /\ \A k \in 1..Len(u.get_outputs) :
              u.get_outputs[k].field = u.output_spec[k].name /\ u.get_outputs[k].index = k - 1
        /\ Called(s) =>
              /\ \A k \in 1..Len(u.input_spec) :
                    HasValue(s, k, LastIndex(s)) =>
                        atCall[s][u.input_spec[k].name] = block.inputs[k].data[LastIndex(s) + 1][1]
              /\ (failedAt[s] = {} /\ result[s] \in {"none", "Ok"}) =>
                    \A k \in 1..Len(u.output_spec) : <<k - 1, LastIndex(s)>> \in writes[s]

\* The interleaved definition, its two inputs carrying different values.
C5_Witness ==
    /\ def = Interleaved.ident
    /\ Called("attr") /\ Called("derive")
    /\ HasValue("attr", 1, LastIndex("attr")) /\ HasValue("attr", 2, LastIndex("attr"))
    /\ atCall["attr"]["a"] = -1 /\ atCall["attr"]["b"] = 2
    /\ atCall["derive"]["a"] = 2 /\ atCall["derive"]["b"] = 2
    /\ <<1, 0>> \in writes["derive"]

\* C6: equivalence law. Given the same blocks from the same initial state, the
\* two units report the same specs, return the same result and leave the same
\* output buffers.
C6_StrategiesEquivalent ==
    (~partial /\ pc["attr"] = "done" /\ pc["derive"] = "done") =>
        /\ Unit("attr").input_spec = Unit("derive").input_spec
        /\ Unit("attr").output_spec = Unit("derive").output_spec
        /\ result["attr"] = result["derive"]
        /\ outputs["attr"] = outputs["derive"]

\* Some channel the call touched is not of the kind declared for it.
Mismatched(s) ==
    \/ \E k \in 1..Len(Unit(s).input_spec) :
          block.inputs[k].present /\ block.inputs[k].kind # Unit(s).input_spec[k].kind
    \/ \E k \in 1..Len(Unit(s).output_spec) :
          outputs[s][k].kind # Unit(s).output_spec[k].kind

\* A checked chunk of the built sequence sits on a channel of another kind.
ZipMismatched ==
    /\ Len(zip.ins) = Len(zip.input_types)
    /\ Len(zip.outs) = Len(zip.output_types)
    /\ \E k \in 1..(Len(zip.input_types) + Len(zip.output_types)) :
          ~ChunkOk(Chunks(zip.input_types, zip.output_types)[k], zip.ins, zip.outs)

\* C7: a channel whose runtime kind is not the declared one makes process, and
\* the sequence iter_proc_io_as! builds, end in a typed error result: no panic,
\* and the channel is not taken for an absent one.
C7_MismatchIsTypedError ==
    /\ \A s \in Strategies :
          (pc[s] = "done" /\ block.n > 0 /\ Mismatched(s)) => result[s] = "Err(type mismatch)"
    /\ (zip.state # "none" /\ ZipMismatched) => zip.state = "Err(type mismatch)"

\* The channels of the built sequence all have n elements.
ZipBlockSize(n) ==
    /\ \A k \in 1..Len(zip.ins) : zip.ins[k].len = n
    /\ \A k \in 1..Len(zip.outs) : zip.outs[k].len = n

\* The tuple for sample index i: that element of every input channel in
\* annotation order, then of every output channel.
TupleAt(i) ==
    [k \in 1..Len(zip.ins) |-> [side |-> "in", chan |-> k - 1, at |-> i]]
        \o [k \in 1..Len(zip.outs) |-> [side |-> "out", chan |-> k - 1, at |-> i]]

\* C8: over N input and M output channels of block size n the built sequence
\* yields the tuples for the indices 0, 1, ..., n-1, in that order, each with
\* the element of all N+M channels at that index, and ends after the n-th.
C8_ZipYieldsBlock ==
    \A n \in 0..(MaxBlockSize + 2) :
        (zip.state \in {"iterating", "exhausted"} /\ ZipBlockSize(n)) =>
            /\ Len(zip.yielded) <= n
            /\ \A k \in 1..Len(zip.yielded) : zip.yielded[k] = TupleAt(k - 1)
            /\ zip.state = "exhausted" => Len(zip.yielded) = n
            /\ (zip.state = "iterating" /\ Len(zip.yielded) = n) =>
                  \A k \in 1..Len(zip.cursors) : zip.cursors[k] = n

\* 2 checked inputs and 1 type-erased output of block size 4: 4 tuples.
C8_Witness ==
    /\ zip.state = "exhausted"
    /\ zip.input_types = <<"i64", "f32">>
    /\ zip.output_types = <<"Any">>
    /\ ZipBlockSize(4)
    /\ Len(zip.yielded) = 4
    /\ zip.yielded[4] = TupleAt(3)

\* The caller holds fewer or more channels than there are annotations.
ZipCountMismatch ==
    Len(zip.ins) # Len(zip.input_types) \/ Len(zip.outs) # Len(zip.output_types)

\* C9: a length mismatch (fewer or more channels than annotations, or channels
\* of different lengths) ends the sequence with an error result: no panic, and
\* no silent end at the shortest channel.
C9_LengthMismatchIsError ==
    /\ (zip.state # "none" /\ ZipCountMismatch) => zip.state = "Err(length mismatch)"
    /\ zip.state = "exhausted" => \E n \in 0..(MaxBlockSize + 2) : ZipBlockSize(n)

\* C10: node() takes one optional producer per declared Input, in declaration
\* order, and connects graph input i to the producer given for slot i, if one
\* was given; an empty slot is not connected and shifts no later slot, its
\* channel is absent in every block and its field keeps the value it had.
C10_NodeConnectsPositionally ==
    graph.wired =>
        /\ Len(graph.slots) = Len(Declared(def, "input"))
        /\ graph.conn = graph.slots
        /\ \A s \in Strategies : pc[s] # "idle" =>
              \A k \in 1..Len(graph.slots) :
                  /\ block.inputs[k].present <=> graph.slots[k] # NoValue
                  /\ graph.slots[k] # NoValue =>
                        block.inputs[k].kind = ProducerKind(graph.slots[k][1])
                  /\ graph.slots[k] = NoValue =>
                        LET name == Unit(s).input_spec[k].name IN
                        fields[s][name] = entry[s][name] /\ atCall[s][name] = entry[s][name]

\* The first slot empty, the second connected: b is latched, a keeps its value.
C10_Witness ==
    /\ graph.wired
    /\ graph.slots = <<NoValue, Some("int_src")>>
    /\ graph.conn[2] = Some("int_src")
    /\ pc["attr"] = "done"
    /\ block.n = 2
    /\ fields["attr"]["a"] = 0
    /\ fields["attr"]["b"] = 2

\* ------------------------------------------------ claims about the macros
RoleTags(arg) == {arg.attrs[k] : k \in 1..Len(arg.attrs)} \cap RoleNames

\* The parameter carries this role tag and no other role tag.
Tagged(arg, r) == arg.kind = "typed" /\ RoleTags(arg) = {r}

IsProcEnv(arg) == arg.kind = "typed" /\ arg.ty.shape = "path" /\ arg.ty.elem = "ProcEnv"

\* The first k parameters that the argument loop classified under role r.
RECURSIVE RolePrefix(_, _, _, _)
RolePrefix(item, roles, r, k) ==
    IF k = 0 THEN <<>>
    ELSE LET rest == RolePrefix(item, roles, r, k - 1) IN
         IF roles[k] = r THEN Append(rest, item[k]) ELSE rest

ClassifiedAs(r) == RolePrefix(expansion.item, expansion.roles, r, Len(expansion.roles))

Pointees(args) == [k \in 1..Len(args) |-> ProcessorArg(args[k].name, Ty("path", args[k].ty.elem))]

\* The expansion went past validation: a unit is being or has been emitted.
Generating == expansion.stage \in {"emit", "done"}

RoleOf(r) == CASE r = "state" -> "State" [] r = "input" -> "Input" [] r = "output" -> "Output"

ShapeFits(arg, r) ==
    CASE r = "input"  -> arg.ty.shape \in {"ref", "group_ref"}
      [] r = "output" -> arg.ty.shape \in {"ref_mut", "group_ref_mut"}
      [] r = "state"  -> TRUE

\* C12: a parameter without a recognized role tag (not of type ProcEnv, none of
\* state / input / output among its attributes) is an error and no unit is
\* generated; a parameter that carries one recognized role tag (on a type of
\* the shape that role takes) is classified under that role.
C12_RoleTagDecides ==
    expansion.macro = "processor" =>
        /\ Generating =>
              \A k \in 1..Len(expansion.item) :
                 LET arg == expansion.item[k] IN
                 arg.kind = "typed" /\ (IsProcEnv(arg) \/ RoleTags(arg) # {})
        /\ \A k \in 1..Len(expansion.roles) :
              LET arg == expansion.item[k] IN
              \A r \in RoleNames :
                 (Tagged(arg, r) /\ ~IsProcEnv(arg) /\ arg.pat_ident /\ ShapeFits(arg, r))
                    => expansion.roles[k] = RoleOf(r)

\* C13: the first parameter of type ProcEnv becomes the environment handle, a
\* second one is rejected with the error, and no unit is generated from a
\* definition with two of them.
C13_OneEnvironment ==
    expansion.macro = "processor" =>
        /\ Generating =>
              Cardinality({k \in 1..Len(expansion.item) : IsProcEnv(expansion.item[k])}) <= 1
        /\ \A k \in 1..Len(expansion.roles) :
              IsProcEnv(expansion.item[k]) =>
                 IF \E j \in 1..(k - 1) : IsProcEnv(expansion.item[j])
                 THEN /\ expansion.roles[k] = "rejected"
                      /\ expansion.stage = "error"
                      /\ expansion.diag = "Only one ProcEnv argument is allowed"
                 ELSE /\ expansion.roles[k] = "Environment"
                      /\ expansion.acc.proc_env_ident = expansion.item[k].name

\* A second ProcEnv parameter, named differently from the first, was rejected.
C13_Witness ==
    /\ expansion.macro = "processor"
    /\ expansion.stage = "error"
    /\ expansion.roles = <<"Environment", "rejected">>
    /\ expansion.item[1].name # expansion.item[2].name
    /\ expansion.acc.proc_env_ident = expansion.item[1].name

\* An argument list the claim calls malformed.
Malformed(attr) ==
    \/ ~attr.parsed
    \/ \E k \in 1..Len(attr.args) :
          LET m == attr.args[k] IN
          \/ m.kind = "Path"
          \/ m.kind = "List" /\ m.path # "derive"
          \/ m.kind = "NameValue" /\ m.path \notin {"allocate", "resize_buffers"}
          \/ m.kind = "NameValue" /\ m.value # "path"

\* C14: with malformed arguments to #[processor(...)] the expansion ends in a
\* diagnostic and never goes on to the parameters or to emitting a unit.
C14_MalformedArgsAreTerminal ==
    (expansion.macro = "processor" /\ Malformed(expansion.attr)) =>
        /\ expansion.stage \in {"attr", "error"}
        /\ expansion.stage = "error" => expansion.diag # ""

\* The table the claim gives.
SupportedKinds ==
    ("bool" :> "Bool") @@ ("f32" :> "Float") @@ ("f64" :> "Float") @@ ("Float" :> "Float")
        @@ ("i64" :> "Int") @@ ("MidiMessage" :> "Midi")

KindsOf(fs) == [k \in 1..Len(fs) |-> SupportedKinds[fs[k].ty.elem]]

AllSupported(fs) ==
    \A k \in 1..Len(fs) : fs[k].ty.shape = "path" /\ fs[k].ty.elem \in DOMAIN SupportedKinds

\* C15: every signal type derive(Processor) finds for an Input or Output field
\* is the table's kind for the field's type name, the same for both roles; a
\* field of any other type ends the expansion in an error, and no kind is
\* recorded for it.
C15_SignalTypeMapper ==
    expansion.macro = "derive" =>
        LET ins  == input_fields(expansion.fields)
            outs == output_fields(expansion.fields)
            seenIn  == SubSeq(ins, 1, Len(expansion.input_field_signal_types))
            seenOut == SubSeq(outs, 1, Len(expansion.output_field_signal_types))
        IN
        /\ AllSupported(seenIn)
        /\ expansion.input_field_signal_types = KindsOf(seenIn)
        /\ AllSupported(seenOut)
        /\ expansion.output_field_signal_types = KindsOf(seenOut)
        /\ expansion.stage = "done" =>
              /\ AllSupported(ins) /\ AllSupported(outs)
              /\ [k \in 1..Len(ins) |-> expansion.unit.input_spec[k].kind] = KindsOf(ins)
              /\ [k \in 1..Len(outs) |-> expansion.unit.output_spec[k].kind] = KindsOf(outs)
        /\ expansion.stage = "error" =>
              /\ expansion.diag # ""
              /\ ~(AllSupported(ins) /\ AllSupported(outs))

\* A unit was derived from a struct with an f64 input and an i64 output.
C15_Witness ==
    /\ expansion.macro = "derive"
    /\ expansion.stage = "done"
    /\ \E k \in 1..Len(expansion.unit.input_spec) :
          /\ input_fields(expansion.fields)[k].ty.elem = "f64"
          /\ expansion.unit.input_spec[k].kind = "Float"
    /\ \E k \in 1..Len(expansion.unit.output_spec) :
          /\ output_fields(expansion.fields)[k].ty.elem = "i64"
          /\ expansion.unit.output_spec[k].kind = "Int"

\* ------------------------------------------------- claims about the notes
\* A note name as the claim describes it: a letter, accidentals, one digit.
WellFormed(name) ==
    /\ Len(name) >= 2
    /\ ToUppercase(name[1]) \in DOMAIN NoteLetters
    /\ name[Len(name)] \in DOMAIN Digits
    /\ \A k \in 2..(Len(name) - 1) : name[k] \in {"#", "b", "B"}

Sharps(name, n) == Cardinality({k \in 2..n : name[k] = "#"})

Flats(name, n) == Cardinality({k \in 2..n : name[k] \in {"b", "B"}})

\* 12 * (o + 1) + offset + sharps - flats
Expected(name) ==
    12 * (Digits[name[Len(name)]] + 1) + NoteLetters[ToUppercase(name[1])]
        + Sharps(name, Len(name) - 1) - Flats(name, Len(name) - 1)

\* The semitone stays an i8 while the accidentals are counted.
RunningInI8(name) ==
    \A n \in 1..(Len(name) - 1) :
        InI8(NoteLetters[ToUppercase(name[1])] + Sharps(name, n) - Flats(name, n))

\* The names the macro hands to parse_note, in order.
NamesOf(macro, input) == IF macro = "note" THEN <<input>> ELSE SplitWhitespace(input)

CallOver == notes.stage = "parsing" /\ notes.cur.pc \in {"returned", "panicked"}

\* The statement of C16 for every name of the described form, whatever its
\* value: parse_note returns 12 * (o + 1) + offset + sharps - flats.
C16_NoteValueAnyName ==
    (CallOver /\ WellFormed(Trim(notes.name))) =>
        /\ notes.cur.pc = "returned"
        /\ notes.cur.value = Expected(Trim(notes.name))

InRange(name) == Expected(name) >= 0 /\ Expected(name) <= 127 /\ RunningInI8(name)

\* C16 (amended): for a name made of a letter, accidentals and one octave digit
\* whose value 12 * (o + 1) + offset + sharps - flats lies in 0..127 (the
\* count of the accidentals staying within an i8 on the way), parse_note
\* returns that value; note! yields it and note_array! yields the values of
\* the whitespace-separated names, in order, one per name.
C16_NoteValue ==
    /\ (CallOver /\ WellFormed(Trim(notes.name)) /\ InRange(Trim(notes.name))) =>
          /\ notes.cur.pc = "returned"
          /\ notes.cur.value = Expected(Trim(notes.name))
    /\ notes.stage = "done" =>
          /\ notes.parsed = NamesOf(notes.macro, notes.input)
          /\ Len(notes.out) = Len(notes.parsed)
          /\ \A k \in 1..Len(notes.parsed) :
                LET name == Trim(notes.parsed[k]) IN
                (WellFormed(name) /\ InRange(name)) => notes.out[k] = Expected(name)
    /\ (notes.stage = "done" /\ notes.input = <<"C", "4">>) => notes.out = <<60>>
    /\ (notes.stage = "done" /\ notes.input = <<"C", "#", "4">>) => notes.out = <<61>>
    /\ (notes.stage = "done" /\ notes.input = <<"B", "b", "3">>) => notes.out = <<58>>

\* note_array!["C4 D4 E4"] was expanded to [60, 62, 64].
C16_Witness ==
    /\ notes.stage = "done"
    /\ notes.macro = "note_array"
    /\ notes.input = <<"C", "4", " ", "D", "4", " ", "E", "4">>
    /\ notes.out = <<60, 62, 64>>

\* C17: a call of parse_note ends in a panic or returns a value in 0..127, the
\* value of the note it computed: never a value that wrapped around.
C17_NoWrapAround ==
    (notes.stage = "parsing" /\ notes.cur.pc = "returned") =>
        /\ notes.cur.value >= 0
        /\ notes.cur.value <= 127
        /\ notes.cur.value = notes.cur.note + 12 * notes.cur.octave

====
